---- MODULE Spec2Model ----
(***************************************************************************)
(* Model of the two command-line utilities of GitHub-User-Activity-CLI:    *)
(*   src/task-cli.py         a task tracker backed by tasks.json           *)
(*   src/github-activity.py  a fetcher of a user's GitHub events, cached   *)
(*                           in events.json                                *)
(* Every run of a utility is one process: it loads its file, acts, saves   *)
(* and exits.  One action of the model is one such run (or one call of a   *)
(* function of the module, for the functions the properties are about).    *)
(*                                                                         *)
(* Representation of Python values                                         *)
(*   text            a sequence of tokens (one-character strings for the   *)
(*                   texts that are cut, words and literals otherwise);    *)
(*                   the empty text '' is << >>                            *)
(*   None / a value  None is << >>, a value v is << v >>  (Optional)       *)
(*   a file          [exists |-> BOOLEAN, data |-> the JSON value in it]   *)
(***************************************************************************)
EXTENDS Integers, Sequences, FiniteSets

VARIABLES
    tasksFile,   \* tasks.json
    clock,       \* the wall clock, in ticks; a later run reads a later time
    cmd,         \* the arguments of the last run of task-cli (its Namespace)
    out,         \* what the last run of task-cli printed, or the exception that ended it
    saved,       \* whether the last run of task-cli called save_tasks
    before,      \* tasks.json as it was when the last run of task-cli started
    assigned,    \* the ids add_task has assigned so far, oldest first
    eventsFile,  \* events.json
    run,         \* the last run of github-activity: request, response, result, exit code
    call         \* the last direct call of format_event or _truncate, with its result

taskVars == <<tasksFile, clock, cmd, out, saved, before, assigned>>
ghVars == <<eventsFile, run, call>>
vars == <<tasksFile, clock, cmd, out, saved, before, assigned, eventsFile, run, call>>

\* ---------------------------------------------------------------- bounds
MaxClock == 5        \* runs of task-cli in one behaviour
MaxId == 3           \* ids 1..MaxId are passed to update / delete / mark-*
MaxEvents == 2       \* events in a response body
MaxLimit == 2        \* --limit ranges over -NegLimits..MaxLimit
NegLimits == 1
MaxTextLen == 5      \* characters of a text given to _truncate
MaxL == 6            \* max_length ranges over 0..MaxL, and the default
LongTitleLen == 100  \* the long title of the specification's example

\* ------------------------------------------------------- Python helpers
None == << >>
Some(v) == << v >>

Max(S) == CHOOSE m \in S : \A x \in S : x <= m

Min2(a, b) == IF a <= b THEN a ELSE b

\* s[:k] as it would be with the element at k kept too
PySliceToInclusive(s, k) ==
    IF k >= 0 THEN SubSeq(s, 1, Min2(k + 1, Len(s)))
    ELSE SubSeq(s, 1, IF Len(s) + k + 1 > 0 THEN Len(s) + k + 1 ELSE 0)

\* s[:k], Python's slice: a negative k counts from the end
PySliceTo(s, k) ==
    IF k >= 0 THEN SubSeq(s, 1, Min2(k, Len(s)))
    ELSE SubSeq(s, 1, IF Len(s) + k > 0 THEN Len(s) + k ELSE 0)

\* ' '.join(words), on texts made of tokens
RECURSIVE Join(_)
Join(words) ==
    IF words = << >> THEN << >>
    ELSE IF Len(words) = 1 THEN words[1]
    ELSE words[1] \o <<" ">> \o Join(Tail(words))

\* `if x:` for an Optional text (None and '' are false)
TruthyText(opt) == opt # None /\ opt[1] # << >>

\* `if x:` for an Optional status name (None and '' are false)
TruthyName(opt) == opt # None /\ opt[1] # ""

\* [x for x in s if keep[x]], keep the set of the elements to retain
RECURSIVE SelectSeqIn(_, _)
SelectSeqIn(s, keep) ==
    IF s = << >> THEN << >>
    ELSE (IF s[1] \in keep THEN <<s[1]>> ELSE << >>) \o SelectSeqIn(Tail(s), keep)

Range(s) == {s[i] : i \in 1..Len(s)}

\* =====================================================================
\* src/task-cli.py
\* =====================================================================
Statuses == {"todo", "in-progress", "done"}

\* datetime.now().strftime("%d-%m-%Y %H:%M:%S") and datetime.now().isoformat():
\* the same instant written in two different formats
Strftime(t) == [fmt |-> "%d-%m-%Y %H:%M:%S", t |-> t]
Isoformat(t) == [fmt |-> "iso", t |-> t]

NoFile == [exists |-> FALSE, data |-> << >>]
FileOf(data) == [exists |-> TRUE, data |-> data]

load_tasks == IF tasksFile.exists THEN tasksFile.data ELSE << >>

\* generate_id as it would be with the count of the tasks taken for their
\* greatest id
generate_id_by_count(tasks) == Len(tasks) + 1

generate_id(tasks) ==
    IF tasks # << >>
    THEN Max({tasks[i].id : i \in 1..Len(tasks)}) + 1
    ELSE 1

\* One run of the program: the clock has moved on, the module-level `ts` is
\* read at import, and `before` remembers the store for the properties.
StartRun ==
    /\ clock < MaxClock
    /\ clock' = clock + 1
    /\ before' = tasksFile

add_task(description) ==
    LET tasks == load_tasks
        ts == Strftime(clock')
        task == [id |-> generate_id(tasks), description |-> description,
                 status |-> "todo", created_at |-> ts, updated_at |-> ts]
    IN  /\ tasksFile' = FileOf(Append(tasks, task))
        /\ saved' = TRUE
        /\ assigned' = Append(assigned, task.id)
        /\ out' = [kind |-> "added", id |-> task.id, lines |-> << >>]

\* the position of the first task with this id, 0 when there is none
FirstWithId(tasks, task_id) ==
    IF \E i \in 1..Len(tasks) : tasks[i].id = task_id
    THEN CHOOSE i \in 1..Len(tasks) :
            /\ tasks[i].id = task_id
            /\ \A j \in 1..(i - 1) : tasks[j].id # task_id
    ELSE 0

\* update_task as it would be with the refresh and the save done outside
\* `if changed:`
update_task_always_saving(task_id, description, status) ==
    LET tasks == load_tasks
        i == FirstWithId(tasks, task_id)
        t1 == IF TruthyText(description)
              THEN [tasks[i] EXCEPT !.description = description[1]] ELSE tasks[i]
        t2 == IF TruthyName(status) THEN [t1 EXCEPT !.status = status[1]] ELSE t1
        t3 == [t2 EXCEPT !.updated_at = Isoformat(clock')]
    IN  /\ assigned' = assigned
        /\ IF i = 0
           THEN /\ out' = [kind |-> "not found", id |-> task_id, lines |-> << >>]
                /\ saved' = FALSE
                /\ tasksFile' = tasksFile
           ELSE /\ tasksFile' = FileOf([tasks EXCEPT ![i] = t3])
                /\ saved' = TRUE
                /\ out' = [kind |-> "updated", id |-> task_id, lines |-> << >>]

update_task(task_id, description, status) ==
    LET tasks == load_tasks
        i == FirstWithId(tasks, task_id)
        changed == TruthyText(description) \/ TruthyName(status)
        t1 == IF TruthyText(description)
              THEN [tasks[i] EXCEPT !.description = description[1]] ELSE tasks[i]
        t2 == IF TruthyName(status) THEN [t1 EXCEPT !.status = status[1]] ELSE t1
        t3 == [t2 EXCEPT !.updated_at = Isoformat(clock')]
    IN  /\ assigned' = assigned
        /\ IF i = 0
           THEN /\ out' = [kind |-> "not found", id |-> task_id, lines |-> << >>]
                /\ saved' = FALSE
                /\ tasksFile' = tasksFile
           ELSE IF changed
           THEN /\ tasksFile' = FileOf([tasks EXCEPT ![i] = t3])
                /\ saved' = TRUE
                /\ out' = [kind |-> "updated", id |-> task_id, lines |-> << >>]
           ELSE /\ out' = [kind |-> "no changes", id |-> task_id, lines |-> << >>]
                /\ saved' = FALSE
                /\ tasksFile' = tasksFile

\* delete_task as it would be without the early return on an unknown id
delete_task_always_saving(task_id) ==
    LET tasks == load_tasks
        kept == SelectSeqIn(tasks, {task \in Range(tasks) : task.id # task_id})
    IN  /\ assigned' = assigned
        /\ tasksFile' = FileOf(kept)
        /\ saved' = TRUE
        /\ out' = [kind |-> IF Len(kept) = Len(tasks) THEN "not found" ELSE "deleted",
                   id |-> task_id, lines |-> << >>]

delete_task(task_id) ==
    LET tasks == load_tasks
        kept == SelectSeqIn(tasks, {task \in Range(tasks) : task.id # task_id})
    IN  /\ assigned' = assigned
        /\ IF Len(kept) = Len(tasks)
           THEN /\ out' = [kind |-> "not found", id |-> task_id, lines |-> << >>]
                /\ saved' = FALSE
                /\ tasksFile' = tasksFile
           ELSE /\ tasksFile' = FileOf(kept)
                /\ saved' = TRUE
                /\ out' = [kind |-> "deleted", id |-> task_id, lines |-> << >>]

\* the filter of list_tasks as it would be with != for ==
list_tasks_result_negated(tasks, status) ==
    IF TruthyName(status)
    THEN SelectSeqIn(tasks, {task \in Range(tasks) : task.status # status[1]})
    ELSE tasks

\* the tasks list_tasks prints, one line each, every field of the task on it
list_tasks_result(tasks, status) ==
    IF TruthyName(status)
    THEN SelectSeqIn(tasks, {task \in Range(tasks) : task.status = status[1]})
    ELSE tasks

list_tasks(status) ==
    LET shown == list_tasks_result(load_tasks, status)
    IN  /\ UNCHANGED <<tasksFile, assigned>>
        /\ saved' = FALSE
        /\ out' = IF shown = << >>
                  THEN [kind |-> "No tasks found.", id |-> 0, lines |-> << >>]
                  ELSE [kind |-> "listed", id |-> 0, lines |-> shown]

\* ---- main(): the argument parser and the dispatch on the subcommand
\* The Namespace parse_args() builds for each subcommand: one attribute per
\* add_argument of its parser, named after the argument, plus `command`.
ParseAdd(words) == [command |-> "add", description |-> words]
ParseUpdate(id, descriptions, status) ==
    [command |-> "update", id |-> id, descriptions |-> descriptions, status |-> status]
ParseDelete(id) == [command |-> "delete", id |-> id]
ParseList(status) == [command |-> "list", status |-> status]
ParseMark(command, id) == [command |-> command, id |-> id]
ParseNone == [command |-> "None"]

\* an exception nothing catches: the traceback is printed, no file is touched
Unhandled(exception) ==
    /\ out' = [kind |-> exception, id |-> 0, lines |-> << >>]
    /\ saved' = FALSE
    /\ UNCHANGED <<tasksFile, assigned>>

main_task_cli(args) ==
    /\ StartRun
    /\ UNCHANGED ghVars
    /\ IF args.command = "add"
       THEN add_task(Join(args.description))
       ELSE IF args.command = "update"
       THEN IF "description" \in DOMAIN args
            THEN update_task(args.id,
                             IF args.description # None /\ args.description[1] # << >>
                             THEN Some(Join(args.description[1])) ELSE None,
                             args.status)
            ELSE Unhandled("AttributeError")
       ELSE IF args.command = "delete"
       THEN delete_task(args.id)
       ELSE IF args.command = "list"
       THEN list_tasks(IF "status" \in DOMAIN args THEN args.status ELSE None)
       ELSE IF args.command = "mark-in-progress"
       THEN update_task(args.id, None, Some("in-progress"))
       ELSE IF args.command = "mark-done"
       THEN update_task(args.id, None, Some("done"))
       ELSE \* parser.print_help()
            /\ out' = [kind |-> "help", id |-> 0, lines |-> << >>]
            /\ saved' = FALSE
            /\ UNCHANGED <<tasksFile, assigned>>

\* ---- the inputs of the runs
Ids == 1..MaxId
WordLists == {<< <<"a">> >>, << <<"a">>, <<"b">> >>}
DescriptionArgs == {None, Some(<< >>), Some(<<"c">>)}
StatusArgs == {None} \cup {Some(s) : s \in Statuses}
DescriptionsOptions == {None, Some(<< >>), Some(<< <<"c">> >>)}

CmdAdd ==
    \E words \in WordLists :
        /\ cmd' = ParseAdd(words)
        /\ main_task_cli(cmd')
CmdUpdate ==
    \E id \in Ids, d \in DescriptionsOptions, s \in StatusArgs :
        /\ cmd' = ParseUpdate(id, d, s)
        /\ main_task_cli(cmd')
CmdDelete ==
    \E id \in Ids :
        /\ cmd' = ParseDelete(id)
        /\ main_task_cli(cmd')
CmdList ==
    \E s \in StatusArgs :
        /\ cmd' = ParseList(s)
        /\ main_task_cli(cmd')
CmdMarkInProgress ==
    \E id \in Ids :
        /\ cmd' = ParseMark("mark-in-progress", id)
        /\ main_task_cli(cmd')
CmdMarkDone ==
    \E id \in Ids :
        /\ cmd' = ParseMark("mark-done", id)
        /\ main_task_cli(cmd')
CmdHelp ==
    /\ cmd' = ParseNone
    /\ main_task_cli(cmd')

\* update(id, description?, status?) of the task store, called as a function
CallUpdateTask ==
    \E id \in Ids, d \in DescriptionArgs, s \in StatusArgs :
        /\ cmd' = [command |-> "update_task()", id |-> id, description |-> d, status |-> s]
        /\ StartRun
        /\ UNCHANGED ghVars
        /\ update_task(id, d, s)

InitTasks ==
    /\ tasksFile = NoFile
    /\ clock = 0
    /\ cmd = ParseNone
    /\ out = [kind |-> "none", id |-> 0, lines |-> << >>]
    /\ saved = FALSE
    /\ before = NoFile
    /\ assigned = << >>

InitGH ==
    /\ eventsFile = NoFile
    /\ run = [kind |-> "none"]
    /\ call = [fn |-> "none", done |-> TRUE]

Init == InitTasks /\ InitGH

Next ==
    \/ CmdAdd
    \/ CmdUpdate
    \/ CmdDelete
    \/ CmdList
    \/ CmdMarkInProgress
    \/ CmdMarkDone
    \/ CmdHelp
    \/ CallUpdateTask

Spec == Init /\ [][Next]_vars

\* =====================================================================
\* src/github-activity.py
\* =====================================================================
\* ---- JSON values, as json.load builds them: k is the kind of the value and
\* one of n, s, l, d holds its content (the others are empty)
JNull == [k |-> "null", n |-> 0, s |-> << >>, l |-> << >>, d |-> << >>]       \* None
\* a str: a text, one token per character
JStr(text) == [k |-> "str", n |-> 0, s |-> text, l |-> << >>, d |-> << >>]
\* an int, n >= 0
JNum(n) == [k |-> "num", n |-> n, s |-> << >>, l |-> << >>, d |-> << >>]
\* a list: a sequence of JSON values
JList(items) == [k |-> "list", n |-> 0, s |-> << >>, l |-> items, d |-> << >>]
\* a dict: its items, [key |-> a name, val |-> a JSON value], in order
JDict(items) == [k |-> "dict", n |-> 0, s |-> << >>, l |-> << >>, d |-> items]
KV(key, val) == [key |-> key, val |-> val]
EmptyDict == JDict(<< >>)

\* a string literal of the source, kept as one token
Lit(word) == JStr(<<word>>)

\* `not x`
Falsy(x) ==
    \/ x.k = "null"
    \/ x.k = "str" /\ x.s = << >>
    \/ x.k = "num" /\ x.n = 0
    \/ x.k = "list" /\ x.l = << >>
    \/ x.k = "dict" /\ x.d = << >>

\* `x or default`
OrElse(x, default) == IF Falsy(x) THEN default ELSE x

\* d.get(key, default) on a dict d
Get(d, key, default) ==
    IF \E i \in 1..Len(d.d) : d.d[i].key = key
    THEN d.d[CHOOSE i \in 1..Len(d.d) : d.d[i].key = key].val
    ELSE default

\* x == 'literal'
Is(x, word) == x.k = "str" /\ x.s = <<word>>

DigitChar(d) ==
    CASE d = 0 -> "0" [] d = 1 -> "1" [] d = 2 -> "2" [] d = 3 -> "3" [] d = 4 -> "4"
      [] d = 5 -> "5" [] d = 6 -> "6" [] d = 7 -> "7" [] d = 8 -> "8" [] d = 9 -> "9"

RECURSIVE IntToText(_)
IntToText(n) ==
    IF n < 10 THEN <<DigitChar(n)>> ELSE IntToText(n \div 10) \o <<DigitChar(n % 10)>>

\* repr(x) and str(x) (a quote inside a str is not escaped)
RECURSIVE PyRepr(_), ReprItems(_), ReprPairs(_)
PyRepr(x) ==
    CASE x.k = "null" -> <<"N", "o", "n", "e">>
      [] x.k = "str" -> <<"'">> \o x.s \o <<"'">>
      [] x.k = "num" -> IntToText(x.n)
      [] x.k = "list" -> <<"[">> \o ReprItems(x.l) \o <<"]">>
      [] x.k = "dict" -> <<"{">> \o ReprPairs(x.d) \o <<"}">>
ReprItems(items) ==
    IF items = << >> THEN << >>
    ELSE PyRepr(items[1])
         \o (IF Len(items) = 1 THEN << >> ELSE <<",", " ">> \o ReprItems(Tail(items)))
ReprPairs(pairs) ==
    IF pairs = << >> THEN << >>
    ELSE <<"'", pairs[1].key, "'", ":", " ">> \o PyRepr(pairs[1].val)
         \o (IF Len(pairs) = 1 THEN << >> ELSE <<",", " ">> \o ReprPairs(Tail(pairs)))

PyStr(x) == IF x.k = "str" THEN x.s ELSE PyRepr(x)

\* str.capitalize(): the first character in upper case, the others in lower
\* case; a literal of the source is one token and is capitalized as a word
Upper(c) ==
    CASE c = "a" -> "A" [] c = "b" -> "B"
      [] c = "performed" -> "Performed" [] c = "started" -> "Started"
      [] c = "commented" -> "Commented" [] c = "released" -> "Released"
      [] c = "starred" -> "Starred"
      [] OTHER -> c

Lower(c) == CASE c = "A" -> "a" [] c = "B" -> "b" [] OTHER -> c

Capitalize(text) ==
    IF text = << >> THEN << >>
    ELSE <<Upper(text[1])>> \o [i \in 1..(Len(text) - 1) |-> Lower(text[i + 1])]

\* ---- results of a call: a value returned or an exception raised
Return(value) == [ok |-> TRUE, value |-> value]
Raise(exception) == [ok |-> FALSE, exc |-> exception]

\* the width of '...', subtracted from max_length at the cut
EllipsisWidth == 3
Ellipsis == <<".", ".", ".">>

\* _truncate as it would be with the cut at max_length
truncate_cut_at_max(text, max_length) ==
    IF Falsy(text) THEN << >>
    ELSE LET s == PyStr(text)
         IN  IF Len(s) > max_length
             THEN PySliceTo(s, max_length) \o Ellipsis
             ELSE s

\* _truncate(text, max_length); text is None or any JSON value
truncate(text, max_length) ==
    IF Falsy(text) THEN << >>
    ELSE LET s == PyStr(text)
         IN  IF Len(s) > max_length
             THEN PySliceTo(s, max_length - EllipsisWidth) \o Ellipsis
             ELSE s

DefaultMaxLength == 80

\* len(x)
PyLen(x) ==
    CASE x.k = "str" -> Return(Len(x.s))
      [] x.k = "list" -> Return(Len(x.l))
      [] x.k = "dict" -> Return(Len(x.d))
      [] OTHER -> Raise("TypeError")

\* x.get(key, default): only a dict has .get
GetAttrGet(x, key, default) ==
    IF x.k = "dict" THEN Return(Get(x, key, default)) ELSE Raise("AttributeError")

\* f"{action.capitalize()} ..." : only a str has .capitalize
CapitalizeOf(action, rest) ==
    IF action.k = "str" THEN Return(Capitalize(action.s) \o rest)
    ELSE Raise("AttributeError")

\* the branches of format_event that read payload['action'] and a title or
\* tag under payload[key][field]:
\*   action = payload.get('action') or default
\*   x = payload.get(key, {}).get(field)
ActionLine(payload, repo, default, key, field, max_length, words, cut) ==
    LET a == GetAttrGet(payload, "action", JNull)
    IN  IF ~a.ok THEN a
        ELSE LET action == OrElse(a.value, Lit(default))
                 sub == GetAttrGet(payload, key, EmptyDict)
             IN  IF ~sub.ok THEN sub
                 ELSE LET x == GetAttrGet(sub.value, field, JNull)
                      IN  IF ~x.ok THEN x
                          ELSE CapitalizeOf(action,
                                 <<words, "'">>
                                 \o (IF cut THEN truncate(x.value, max_length)
                                     ELSE PyStr(OrElse(x.value, JStr(<< >>))))
                                 \o <<"' in ">> \o PyStr(repo))

\* the branches Created / Deleted
RefLine(payload, repo, verb) ==
    LET rt == GetAttrGet(payload, "ref_type", JNull)
    IN  IF ~rt.ok THEN rt
        ELSE LET ref_type == OrElse(rt.value, Lit("ref"))
                 ref == OrElse(Get(payload, "ref", JNull), JStr(<< >>))
             IN  Return(<<verb>> \o PyStr(ref_type) \o <<" '">> \o PyStr(ref)
                        \o <<"' in ">> \o PyStr(repo))

format_event(event, max_length) ==
    LET t0 == GetAttrGet(event, "type", Lit("UnknownEvent"))
    IN  IF ~t0.ok THEN t0 ELSE
    LET t == t0.value
        r0 == GetAttrGet(Get(event, "repo", EmptyDict), "name", Lit("UnknownRepo"))
    IN  IF ~r0.ok THEN r0 ELSE
    LET repo == r0.value
        payload == Get(event, "payload", EmptyDict)
    IN  IF Is(t, "PushEvent") THEN
            LET c == GetAttrGet(payload, "commits", JList(<< >>))
            IN  IF ~c.ok THEN c
                ELSE LET cnt == PyLen(c.value)
                     IN  IF ~cnt.ok THEN cnt
                         ELSE Return(<<"Pushed ">> \o IntToText(cnt.value)
                                     \o <<" commit">>
                                     \o (IF cnt.value # 1 THEN <<"s">> ELSE << >>)
                                     \o <<" to ">> \o PyStr(repo))
        ELSE IF Is(t, "IssuesEvent") THEN
            ActionLine(payload, repo, "performed", "issue", "title", max_length,
                       " issue ", TRUE)
        ELSE IF Is(t, "WatchEvent") THEN
            LET a == GetAttrGet(payload, "action", Lit("started"))
            IN  IF ~a.ok THEN a
                ELSE CapitalizeOf(a.value, <<" watching ">> \o PyStr(repo))
        ELSE IF Is(t, "IssueCommentEvent") THEN
            ActionLine(payload, repo, "commented", "issue", "title", max_length,
                       " comment on issue ", TRUE)
        ELSE IF Is(t, "PullRequestEvent") THEN
            ActionLine(payload, repo, "performed", "pull_request", "title", max_length,
                       " pull request ", TRUE)
        ELSE IF Is(t, "PullRequestReviewCommentEvent") THEN
            Return(<<"Commented on a pull request in ">> \o PyStr(repo))
        ELSE IF Is(t, "CreateEvent") THEN RefLine(payload, repo, "Created ")
        ELSE IF Is(t, "DeleteEvent") THEN RefLine(payload, repo, "Deleted ")
        ELSE IF Is(t, "ForkEvent") THEN
            LET f == GetAttrGet(payload, "forkee", EmptyDict)
            IN  IF ~f.ok THEN f
                ELSE LET n == GetAttrGet(f.value, "full_name", JNull)
                     IN  IF ~n.ok THEN n
                         ELSE Return(<<"Forked ">> \o PyStr(repo) \o <<" to ">>
                                     \o PyStr(OrElse(n.value, Lit("<fork>"))))
        ELSE IF Is(t, "ReleaseEvent") THEN
            ActionLine(payload, repo, "released", "release", "tag_name", max_length,
                       " release ", FALSE)
        ELSE IF Is(t, "StarEvent") \/ Is(t, "WatchEvent") THEN
            LET a == GetAttrGet(payload, "action", JNull)
            IN  IF ~a.ok THEN a
                ELSE CapitalizeOf(OrElse(a.value, Lit("starred")), <<" ">> \o PyStr(repo))
        ELSE Return(PyStr(t) \o <<" on ">> \o PyStr(repo))

\* ---- the request: what urlopen meets on the network
\* [net |-> "ok" | "unreachable" | "timeout", status |-> the HTTP status,
\*  body |-> [enc |-> "json" | "not json" | "not utf-8", data |-> JSON value]]
\* urlopen hands back a response for the statuses 200..299, raises HTTPError
\* for the others, URLError when the server is not reached, and lets the
\* socket's TimeoutError through when the response does not arrive in time.
urlopen(resp) ==
    IF resp.net = "unreachable" THEN [ok |-> FALSE, exc |-> "URLError", code |-> 0]
    ELSE IF resp.net = "timeout" THEN [ok |-> FALSE, exc |-> "TimeoutError", code |-> 0]
    ELSE IF resp.status < 200 \/ resp.status > 299
    THEN [ok |-> FALSE, exc |-> "HTTPError", code |-> resp.status]
    ELSE Return(resp)

\* json.load(response)
json_load(body) ==
    IF body.enc = "json" THEN Return(body.data)
    ELSE IF body.enc = "not utf-8" THEN Raise("UnicodeDecodeError")
    ELSE Raise("JSONDecodeError")

\* isinstance(exception, class_), for the classes main() catches
IsInstance(exception, class_) ==
    \/ exception = class_
    \/ class_ = "ValueError" /\ exception \in {"UnicodeDecodeError", "JSONDecodeError"}
    \/ class_ = "OSError" /\ exception \in {"URLError", "HTTPError", "TimeoutError"}
    \/ class_ = "URLError" /\ exception = "HTTPError"

fetch_github_events(resp, limit) ==
    LET r == urlopen(resp)
    IN  IF r.ok
        THEN IF resp.status = 200
             THEN LET data == json_load(resp.body)
                  IN  IF data.ok
                      THEN IF data.value.k = "list"
                           THEN Return(JList(PySliceTo(data.value.l, limit)))
                           ELSE Return(data.value)
                      ELSE IF IsInstance(data.exc, "JSONDecodeError")
                      THEN Raise("RuntimeError")   \* Failed to parse JSON response.
                      ELSE data
             ELSE Raise("ValueError")              \* Error fetching events: <status>
        ELSE IF IsInstance(r.exc, "HTTPError")
        THEN IF r.code = 404 THEN Raise("ValueError")    \* User <username> not found.
             ELSE IF r.code = 403 THEN Raise("RuntimeError")
             ELSE Raise("RuntimeError")
        ELSE IF IsInstance(r.exc, "URLError")
        THEN Raise("RuntimeError")                 \* Failed to reach the server
        ELSE Raise(r.exc)

\* events[:limit] in print_events: a list or a str can be sliced
SliceOf(events, limit) ==
    CASE events.k = "list" -> Return(PySliceTo(events.l, limit))
      [] events.k = "str" ->
            Return([i \in 1..Len(PySliceTo(events.s, limit)) |-> JStr(<<events.s[i]>>)])
      [] OTHER -> Raise("TypeError")

\* the lines print_events prints (the date that follows each description is
\* left out), or the exception that ends it
print_events(events, limit) ==
    IF Falsy(events) THEN Return(<< <<"No events found.">> >>)
    ELSE LET items == SliceOf(events, limit)
         IN  IF ~items.ok THEN items
             ELSE LET desc == [i \in 1..Len(items.value) |->
                                  format_event(items.value[i], DefaultMaxLength)]
                      bad == {i \in 1..Len(desc) : ~desc[i].ok}
                  IN  IF bad # {}
                      THEN desc[CHOOSE i \in bad : \A j \in bad : i <= j]
                      ELSE Return([i \in 1..Len(desc) |-> <<"- ">> \o desc[i].value])

\* save_events(events): the file is rewritten whole; when it cannot be opened
\* for writing, OSError is raised and the file is as it was
save_events(events, disk) ==
    IF disk = "ok" THEN Return(FileOf(events)) ELSE Raise("OSError")

\* main(), the fetch command: the exit code 1 is Python's for a traceback
main_github_activity(limit, resp, disk) ==
    LET fetched == fetch_github_events(resp, limit)
        printed == print_events(fetched.value, limit)
        written == save_events(fetched.value, disk)
        base == [kind |-> "fetch", limit |-> limit, resp |-> resp, disk |-> disk,
                 fetched |-> fetched, print_raised |-> FALSE, saved |-> FALSE,
                 warned |-> FALSE, exit |-> 0]
    IN  IF ~fetched.ok
           THEN /\ eventsFile' = eventsFile
                /\ run' = [base EXCEPT !.exit =
                              IF IsInstance(fetched.exc, "ValueError") THEN 2
                              ELSE IF IsInstance(fetched.exc, "RuntimeError") THEN 3
                              ELSE 1]
           ELSE IF ~printed.ok
           THEN /\ eventsFile' = eventsFile
                /\ run' = [base EXCEPT !.print_raised = TRUE, !.exit = 1]
           ELSE IF Falsy(fetched.value)
           THEN /\ eventsFile' = eventsFile        \* No events to display.
                /\ run' = base
           ELSE IF written.ok
           THEN /\ eventsFile' = written.value
                /\ run' = [base EXCEPT !.saved = TRUE]
           ELSE /\ eventsFile' = eventsFile
                /\ run' = [base EXCEPT !.warned = TRUE]

\* ---- the inputs of the fetch command
Limits == (0 - NegLimits)..MaxLimit
HttpStatuses == {200, 204, 304, 403, 404, 500}

EvIssue ==
    JDict(<<KV("type", Lit("IssuesEvent")),
            KV("repo", JDict(<<KV("name", JStr(<<"b">>))>>)),
            KV("payload", JDict(<<KV("action", JStr(<<"a", "b">>)),
                                  KV("issue", JDict(<<KV("title", JStr(<<"a", "b">>))>>))>>))>>)
EvNullRepo == JDict(<<KV("type", Lit("PushEvent")), KV("repo", JNull)>>)
FetchEvents == {EvIssue, EvNullRepo}

Arrays == UNION {[1..n -> FetchEvents] : n \in 0..MaxEvents}
JsonBodies ==
    {JList(a) : a \in Arrays}
    \cup {JNull, JNum(5), JStr(<<"a", "b">>), JDict(<<KV("message", JStr(<<"a">>))>>)}
Bodies ==
    {[enc |-> "json", data |-> d] : d \in JsonBodies}
    \cup {[enc |-> "not json", data |-> JNull], [enc |-> "not utf-8", data |-> JNull]}
NoBody == [enc |-> "not json", data |-> JNull]
Responses ==
    {[net |-> "ok", status |-> 200, body |-> b] : b \in Bodies}
    \cup {[net |-> "ok", status |-> st, body |-> NoBody] : st \in HttpStatuses \ {200}}
    \cup {[net |-> n, status |-> 0, body |-> NoBody] : n \in {"unreachable", "timeout"}}

CmdFetch ==
    \E limit \in Limits, resp \in Responses, disk \in {"ok", "failing"} :
        /\ main_github_activity(limit, resp, disk)
        /\ UNCHANGED taskVars
        /\ UNCHANGED call

\* ---- the inputs of the direct calls of format_event and _truncate
Absent == [k |-> "absent", n |-> 0, s |-> << >>, l |-> << >>, d |-> << >>]
\* the dict of the items whose option is not Absent
DictOf(options) == JDict(SelectSeq(options, LAMBDA kv : kv.val.k # "absent"))

LongText == JStr(<<"a", "b", "a", "b", "a", "b", "a", "b">>)
ActionOptions == {Absent, JNull, JStr(<< >>), JStr(<<"a", "B">>), JNum(7)}
TitledOptions(field) ==
    {Absent, JNull, JStr(<<"a">>), EmptyDict,
     JDict(<<KV(field, JNull)>>), JDict(<<KV(field, LongText)>>),
     JDict(<<KV(field, JNum(1234567))>>)}
CommitsOptions ==
    {Absent, JNull, JNum(2), JStr(<<"a", "b">>), JList(<< >>), JList(<<EmptyDict>>),
     JList(<<EmptyDict, EmptyDict>>), EmptyDict}
RefOptions == {Absent, JNull, JStr(<<"a">>), JNum(7)}
PayloadOptions ==
    {Absent, JNull, JList(<< >>), JStr(<<"a">>)}
    \cup {DictOf(<<KV("action", a), KV("issue", i)>>) :
             a \in ActionOptions, i \in TitledOptions("title")}
    \cup {DictOf(<<KV("action", a), KV("pull_request", i)>>) :
             a \in ActionOptions, i \in TitledOptions("title")}
    \cup {DictOf(<<KV("action", a), KV("release", i)>>) :
             a \in ActionOptions, i \in TitledOptions("tag_name")}
    \cup {DictOf(<<KV("commits", c)>>) : c \in CommitsOptions}
    \cup {DictOf(<<KV("forkee", f)>>) : f \in TitledOptions("full_name")}
    \cup {DictOf(<<KV("ref", r), KV("ref_type", rt)>>) : r \in RefOptions, rt \in RefOptions}
TypeTags ==
    {"PushEvent", "IssuesEvent", "WatchEvent", "IssueCommentEvent", "PullRequestEvent",
     "PullRequestReviewCommentEvent", "CreateEvent", "DeleteEvent", "ForkEvent",
     "ReleaseEvent", "StarEvent", "GollumEvent"}
TypeOptions == {Absent, JNull, JNum(7)} \cup {Lit(tag) : tag \in TypeTags}
RepoOptions ==
    {Absent, JNull, JStr(<<"a">>), EmptyDict,
     JDict(<<KV("name", JStr(<<"a", "b">>))>>), JDict(<<KV("name", JNull)>>)}
FormatLengths == {MaxL, DefaultMaxLength}

\* a call that is still to be made, and the call made
Pending(fn, arg, max_length) ==
    [fn |-> fn, arg |-> arg, max_length |-> max_length, done |-> FALSE,
     result |-> Raise("not called")]

FormatCalls ==
    {Pending("format_event", DictOf(<<KV("type", t), KV("repo", r), KV("payload", p)>>), L) :
        t \in TypeOptions, r \in RepoOptions, p \in PayloadOptions, L \in FormatLengths}

CallFormatEvent ==
    /\ call.fn = "format_event"
    /\ ~call.done
    /\ call' = [call EXCEPT !.done = TRUE,
                            !.result = format_event(call.arg, call.max_length)]
    /\ UNCHANGED taskVars
    /\ UNCHANGED <<eventsFile, run>>

Texts == UNION {[1..n -> {"a", "b"}] : n \in 0..MaxTextLen}
TruncateTexts ==
    {JStr(text) : text \in Texts}
    \cup {JNull, JNum(0), JNum(1234567), JStr([i \in 1..LongTitleLen |-> "x"])}
TruncateLengths == 0..MaxL \cup {DefaultMaxLength}

TruncateCalls ==
    {Pending("_truncate", text, L) : text \in TruncateTexts, L \in TruncateLengths}

CallTruncate ==
    /\ call.fn = "_truncate"
    /\ ~call.done
    /\ call' = [call EXCEPT !.done = TRUE,
                            !.result = Return(truncate(call.arg, call.max_length))]
    /\ UNCHANGED taskVars
    /\ UNCHANGED <<eventsFile, run>>

NextFetch == CmdFetch
SpecFetch == Init /\ [][NextFetch]_vars

InitFormat ==
    /\ InitTasks
    /\ eventsFile = NoFile
    /\ run = [kind |-> "none"]
    /\ call \in FormatCalls
NextFormat == CallFormatEvent
SpecFormat == InitFormat /\ [][NextFormat]_vars

InitTruncate ==
    /\ InitTasks
    /\ eventsFile = NoFile
    /\ run = [kind |-> "none"]
    /\ call \in TruncateCalls
NextTruncate == CallTruncate
SpecTruncate == InitTruncate /\ [][NextTruncate]_vars

\* =====================================================================
\* Properties of the task store (checked under Spec)
\* =====================================================================
IdsOf(tasks) == {tasks[i].id : i \in 1..Len(tasks)}
PosOf(tasks, id) == CHOOSE i \in 1..Len(tasks) : tasks[i].id = id
TaskOf(tasks, id) == tasks[PosOf(tasks, id)]
IsUpdateCall == cmd.command \in {"update_task()", "mark-in-progress", "mark-done"}

\* C1, as stated: the ids add assigns are strictly increasing over the whole
\* sequence of operations (so none is ever assigned twice, deleted or not),
\* and each is 1 + max(ids in the store), or 1 on an empty store.
C1_IdsStrictlyIncreasingNeverReused ==
    /\ \A i, j \in 1..Len(assigned) : i < j => assigned[i] < assigned[j]
    /\ out.kind = "added" =>
          out.id = (IF before.data = << >> THEN 1 ELSE 1 + Max(IdsOf(before.data)))

\* C1, amended: the id add assigns is 1 + max(ids in the store), or 1 on an
\* empty store; it is greater than every id in the store at that moment, the
\* new task is appended under it, and the ids in the store stay pairwise
\* distinct.  (An id is assigned again once the task holding the greatest id
\* has been deleted.)
C1_IdIsOnePlusMaxOfStore ==
    /\ \A i, j \in 1..Len(tasksFile.data) :
          i # j => tasksFile.data[i].id # tasksFile.data[j].id
    /\ out.kind = "added" =>
          /\ out.id = (IF before.data = << >> THEN 1 ELSE 1 + Max(IdsOf(before.data)))
          /\ \A id \in IdsOf(before.data) : id < out.id
          /\ assigned[Len(assigned)] = out.id
          /\ Len(tasksFile.data) = Len(before.data) + 1
          /\ tasksFile.data[Len(tasksFile.data)].id = out.id

\* C1 witness: add has just given out an id that an earlier, since deleted,
\* task had.
C1_Witness ==
    /\ out.kind = "added"
    /\ before.data # << >>
    /\ \E i \in 1..(Len(assigned) - 1) : assigned[i] = out.id

\* C2, as stated: the update command on an existing id, with a description
\* and/or a status supplied, sets the supplied fields of that task, refreshes
\* its updated_at, keeps its id and created_at and every other task, saves,
\* and does not end in an unhandled error.
C2_UpdateCommandUpdates ==
    (/\ cmd.command = "update"
     /\ cmd.id \in IdsOf(before.data)
     /\ \/ cmd.descriptions # None /\ cmd.descriptions[1] # << >>
        \/ cmd.status # None)
    => /\ out.kind = "updated"
       /\ saved
       /\ Len(tasksFile.data) = Len(before.data)
       /\ \A i \in 1..Len(before.data) :
             LET old == before.data[i]
                 new == tasksFile.data[i]
             IN  IF old.id # cmd.id THEN new = old
                 ELSE /\ new.id = old.id
                      /\ new.created_at = old.created_at
                      /\ new.updated_at = Isoformat(clock)
                      /\ new.status = (IF cmd.status # None THEN cmd.status[1]
                                       ELSE old.status)
                      /\ new.description =
                            (IF cmd.descriptions # None /\ cmd.descriptions[1] # << >>
                             THEN Join(cmd.descriptions[1]) ELSE old.description)

\* C5: update and delete on an id that is not in the store report not-found,
\* raise nothing, do not save, and leave tasks.json as it was.
C5_UnknownIdChangesNothing ==
    (/\ IsUpdateCall \/ cmd.command = "delete"
     /\ cmd.id \notin IdsOf(before.data))
    => /\ out.kind = "not found"
       /\ out.id = cmd.id
       /\ ~saved
       /\ tasksFile = before

\* the update case has been reached on a store that holds other tasks
UnknownIdUpdated ==
    /\ IsUpdateCall
    /\ before.data # << >>
    /\ cmd.id \notin IdsOf(before.data)
    /\ out.kind = "not found"

\* C5 witness: delete of an unknown id on a store that holds other tasks.
C5_Witness ==
    /\ cmd.command = "delete"
    /\ before.data # << >>
    /\ cmd.id \notin IdsOf(before.data)
    /\ out.kind = "not found"

\* C6: update on an existing id with neither a description nor a status
\* reports "no changes", does not save, and leaves every field of every task
\* (updated_at included) as it was.
C6_UpdateWithoutFieldsChangesNothing ==
    (/\ cmd.command = "update_task()"
     /\ cmd.description = None
     /\ cmd.status = None
     /\ cmd.id \in IdsOf(before.data))
    => /\ out.kind = "no changes"
       /\ ~saved
       /\ tasksFile = before

\* C6 witness: such an update on a task that an earlier update had changed.
C6_Witness ==
    /\ cmd.command = "update_task()"
    /\ cmd.description = None
    /\ cmd.status = None
    /\ cmd.id \in IdsOf(before.data)
    /\ TaskOf(before.data, cmd.id).updated_at.fmt = "iso"
    /\ out.kind = "no changes"

\* C10: list(status) prints exactly the tasks of the store with that status
\* (all of them without a status), each once, in the order they were added;
\* update and delete keep the order of the tasks that remain.
C10_ListIsTheMatchingTasksInAddOrder ==
    LET store == tasksFile.data
        Matches(task) == cmd.status = None \/ task.status = cmd.status[1]
    IN  /\ \A i, j \in 1..Len(store) :
              i < j => store[i].created_at.t < store[j].created_at.t
        /\ \A a, b \in IdsOf(store) \cap IdsOf(before.data) :
              PosOf(before.data, a) < PosOf(before.data, b)
                  => PosOf(store, a) < PosOf(store, b)
        /\ cmd.command = "list" =>
              /\ \A i \in 1..Len(out.lines) :
                    out.lines[i] \in Range(store) /\ Matches(out.lines[i])
              /\ \A i \in 1..Len(store) :
                    Matches(store[i]) =>
                        Cardinality({k \in 1..Len(out.lines) : out.lines[k] = store[i]}) = 1
              /\ \A i, j \in 1..Len(out.lines) :
                    i < j => out.lines[i].created_at.t < out.lines[j].created_at.t
              /\ (out.kind = "No tasks found.") = (out.lines = << >>)

\* C10 witness: a filtered listing of two tasks out of a store of three.
C10_Witness ==
    /\ cmd.command = "list"
    /\ cmd.status # None
    /\ out.kind = "listed"
    /\ Len(out.lines) = 2
    /\ Len(tasksFile.data) = 3

\* =====================================================================
\* Properties of the fetch command (checked under SpecFetch)
\* =====================================================================
IsFetch == run.kind = "fetch"
\* the response was HTTP 200 with a JSON array as its body
GotArray ==
    /\ IsFetch
    /\ run.resp.net = "ok"
    /\ run.resp.status = 200
    /\ run.resp.body.enc = "json"
    /\ run.resp.body.data.k = "list"
GotJson ==
    /\ IsFetch
    /\ run.resp.net = "ok"
    /\ run.resp.status = 200
    /\ run.resp.body.enc = "json"
NotFound == IsFetch /\ run.resp.net = "ok" /\ run.resp.status = 404

\* C3, as stated: the exit code is 2 exactly when the user was not found
\* (HTTP 404), 3 for every other failure of the fetch, 0 when it succeeded.
\* (Stated for the runs in which the connection did not time out and printing
\* the events raised nothing.)
C3_ExitCodes ==
    (IsFetch /\ run.resp.net # "timeout" /\ ~run.print_raised) =>
        /\ (run.exit = 2) = NotFound
        /\ (~NotFound /\ ~GotJson) => run.exit = 3
        /\ GotJson => run.exit = 0

\* C4, as stated: after a fetch that returned a JSON array, of any length,
\* events.json holds exactly the events that fetch returned.  (Stated for the
\* runs in which the file could be written and nothing was raised.)
C4_CacheIsLastFetch ==
    (GotArray /\ run.disk = "ok" /\ ~run.print_raised)
        => eventsFile = FileOf(run.fetched.value)

\* C8, as stated: for a JSON array A and every integer limit, the result is
\* the prefix of A of length min(limit, len(A)).
C8_PrefixOfLengthMin ==
    GotArray =>
        /\ run.fetched.ok
        /\ run.fetched.value.k = "list"
        /\ Len(run.fetched.value.l) = Min2(run.limit, Len(run.resp.body.data.l))
        /\ \A i \in 1..Len(run.fetched.value.l) :
              run.fetched.value.l[i] = run.resp.body.data.l[i]

\* C8, amended: for a JSON array A the result is a prefix of A; its length is
\* min(limit, len(A)) for a limit >= 0, and max(0, len(A) + limit) for a
\* negative limit (the last -limit entries are dropped).
C8_PrefixOfSliceLength ==
    GotArray =>
        LET A == run.resp.body.data.l
            got == run.fetched.value.l
        IN  /\ run.fetched.ok
            /\ run.fetched.value.k = "list"
            /\ Len(got) = (IF run.limit >= 0 THEN Min2(run.limit, Len(A))
                           ELSE IF Len(A) + run.limit > 0 THEN Len(A) + run.limit
                           ELSE 0)
            /\ \A i \in 1..Len(got) : got[i] = A[i]

\* C8 witness: an array longer than a positive limit has been cut.
C8_Witness ==
    /\ GotArray
    /\ run.limit >= 1
    /\ Len(run.resp.body.data.l) > run.limit
    /\ Len(run.fetched.value.l) = run.limit

\* =====================================================================
\* Properties of format_event (SpecFormat) and of _truncate (SpecTruncate)
\* =====================================================================
\* C7, as stated: format_event raises for no event, whichever of type, repo,
\* payload and the fields under payload are absent, null or of another shape.
C7_FormatNeverRaises ==
    (call.fn = "format_event" /\ call.done) => call.result.ok

Truncated == call.fn = "_truncate" /\ call.done /\ call.arg.k = "str"
EndsWithEllipsis(text) ==
    /\ Len(text) >= Len(Ellipsis)
    /\ SubSeq(text, Len(text) - Len(Ellipsis) + 1, Len(text)) = Ellipsis

\* C9, as stated: for every text and every max length L >= 0 the result is
\* the text when it has at most L characters, and otherwise ends in "..."
\* and has at most L characters.
C9_NeverLongerThanL ==
    Truncated =>
        LET text == call.arg.s
            L == call.max_length
            got == call.result.value
        IN  IF Len(text) <= L THEN got = text
            ELSE EndsWithEllipsis(got) /\ Len(got) <= L

\* C9, amended: the result is the text when it has at most L characters; for
\* L >= 3 a longer text gives its first L - 3 characters followed by "...",
\* L characters in all (80 for a title of 100 characters and L = 80).
C9_CutToLFromThree ==
    Truncated =>
        LET text == call.arg.s
            L == call.max_length
            got == call.result.value
        IN  IF Len(text) <= L THEN got = text
            ELSE L >= 3 =>
                    /\ EndsWithEllipsis(got)
                    /\ Len(got) = L
                    /\ \A i \in 1..(L - 3) : got[i] = text[i]

\* C9 witness: the title of LongTitleLen characters cut to the default length.
C9_Witness ==
    /\ Truncated
    /\ Len(call.arg.s) = LongTitleLen
    /\ call.max_length = DefaultMaxLength
    /\ Len(call.result.value) = DefaultMaxLength
    /\ EndsWithEllipsis(call.result.value)

====
